---- MODULE Spec2Model ----
(***************************************************************************)
(* MultiFrameCodec (lib/ui/painting/multi_frame_codec.cc): the per-frame   *)
(* decode/composite state machine and the UI/IO task-runner pipeline that  *)
(* serves getNextFrame.                                                    *)
(*                                                                         *)
(* Two task runners, each a FIFO queue served by one thread:               *)
(*   ioQueue - the IO task runner (decode thread)                          *)
(*   uiQueue - the UI task runner (result thread)                          *)
(* getNextFrame and ~MultiFrameCodec run on the UI thread.                 *)
(***************************************************************************)
EXTENDS Integers, Sequences, FiniteSets, TLC

\* ------------------------------------------------------------------ bounds
MaxRequests == 3
MaxFrames == 3
NumPixels == 2

\* ------------------------------------------------------- program constants
\* SkCodec::kNoFrame
kNoFrame == -1
\* SK_ColorTRANSPARENT
SK_ColorTRANSPARENT == 0
\* ImageGenerator::kInfinitePlayCount: the largest unsigned int, written as
\* the int of the same 32 bits
kInfinitePlayCount == -1

\* ------------------------------------------------------------------ values
\* The MultiFrameCodec instances of the isolate: all post to the same IO and
\* UI task runners.
Codecs == {1, 2}
Pixels == 1..NumPixels
\* std::optional<T>: the empty set is std::nullopt, {v} holds v.
None == {}
Some(v) == {v}
HasValue(o) == o # {}
ValueOf(o) == CHOOSE v \in o : TRUE

\* SkCodecAnimation::DisposalMethod, and "kNone" for any other value.
DisposalMethods == {"kKeep", "kRestorePrevious", "kRestoreBGColor", "kNone"}
\* The disposal rectangles a frame source may declare (sets of pixels).
Rects == {{1}, Pixels}
\* The pixels frame i draws, and the colour it draws them with.
FramePixels(i) == {p \in Pixels : (p + i) % 2 = 0}
FrameColor(i) == i + 1
FrameDuration(i) == 10 * (i + 1)

AllocError == "Failed to allocate memory for bitmap"
GetPixelsError == "Could not getPixels for frame"
NoFrameError == "Could not provide any frame."
UploadError == "Could not upload texture"

VARIABLES
    gen,        \* gen[c]: the ImageGenerator of codec c (frame count, play count,
                \* frame infos)
    handle,     \* handle[c]: the MultiFrameCodec object (its state_ member) exists
    stConst,    \* stConst[c]: State's const members of codec c
    st,         \* st[c]: State's IO-thread members of codec c
    owners,     \* owners[c]: the shared_ptrs that own the State of codec c
    ioQueue,    \* the IO task runner's queue
    uiQueue,    \* the UI task runner's queue
    ioCur,      \* the DecodeImage call suspended inside generator_->GetPixels
    reqs,       \* history: one record per getNextFrame call, in call order
    lastDecode, \* history: lastDecode[c], the last DecodeImage call that ended
    decodeLog,  \* history: decodeLog[c], the DecodeImage calls until the first that fails
    lastOk,     \* history: lastOk[c], the frame info of the last successful decode
    uiTouched   \* history: uiTouched[c], the State members the UI thread accessed

vars == <<gen, handle, stConst, st, owners, ioQueue, uiQueue, ioCur, reqs, lastDecode,
          decodeLog, lastOk, uiTouched>>

\* ------------------------------------------------------------ frame source
\* ImageGenerator::FrameInfo of frame i: frame 0 requires no frame, a later
\* frame requires its predecessor.
FrameInfos(i) ==
    { [disposal_method |-> d, required_frame |-> rf, disposal_rect |-> r,
       duration |-> FrameDuration(i)] :
        d \in DisposalMethods,
        rf \in (IF i = 0 THEN {None} ELSE {Some(i - 1)}),
        r \in Rects }

\* A disposal rectangle is only read for kRestoreBGColor; other frames carry
\* the whole image.
WellFormedInfo(fi) ==
    fi.disposal_method # "kRestoreBGColor" => fi.disposal_rect = Pixels

\* The frame infos of the animations of n frames: functions on 0..(n - 1).
RECURSIVE FrameTables(_)
FrameTables(n) ==
    IF n = 0
    THEN { [i \in {} |-> 0] }
    ELSE { [i \in 0..(n - 1) |-> IF i = n - 1 THEN fi ELSE f[i]] :
             f \in FrameTables(n - 1),
             fi \in {x \in FrameInfos(n - 1) : WellFormedInfo(x)} }

Generators ==
    UNION { { [frameCount |-> n, frames |-> f] : f \in FrameTables(n) } :
            n \in 0..MaxFrames }

\* The generators whose frames all have one disposal method and rectangle.
UniformGenerators ==
    { g \in Generators :
        \A i \in 0..(g.frameCount - 1) :
            /\ g.frames[i].disposal_method = g.frames[0].disposal_method
            /\ g.frames[i].disposal_rect = g.frames[0].disposal_rect }

\* The uniform generators whose frames are all kKeep.
KeepGenerators ==
    { g \in UniformGenerators :
        \A i \in 0..(g.frameCount - 1) : g.frames[i].disposal_method = "kKeep" }

\* The play counts a generator may report: forever, or a number of plays.
PlayCounts == {kInfinitePlayCount, 0, 1, 3}

\* The generators with each of the play counts.
WithPlayCount(generators, playCounts) ==
    { [frameCount |-> g.frameCount, frames |-> g.frames, playCount |-> n] :
        g \in generators, n \in playCounts }

GetFrameInfo(c, i) == gen[c].frames[i]

\* generator_->GetPixels(info, pixels, rowBytes, frame, prior): the pixels of
\* the frame drawn over the buffer; with no prior frame the codec clears the
\* buffer first.
GetPixels(bitmap, i, prior) ==
    [p \in Pixels |->
        IF p \in FramePixels(i) THEN FrameColor(i)
        ELSE IF prior = kNoFrame THEN SK_ColorTRANSPARENT
        ELSE bitmap[p]]

\* ------------------------------------------------------------- State::State
\* Variant: the play count is not compared with kInfinitePlayCount.
RepetitionCountOfPlays(playCount) ==
    playCount - 1

\* repetitionCount_: GetPlayCount() is an unsigned int and so is the
\* difference, which wraps around; as ints of the same bits, 0 - 1 is -1 and
\* kInfinitePlayCount - 1 is -2.
RepetitionCount(playCount) ==
    IF playCount = kInfinitePlayCount
    THEN -1
    ELSE playCount - 1

\* The const members.
NewConstMembers(g) ==
    [frameCount_ |-> g.frameCount,
     repetitionCount_ |-> RepetitionCount(g.playCount)]

\* The members of the IO thread.
NewState == [nextFrameIndex_ |-> 0,
             lastRequiredFrame_ |-> None,
             restoreBGColorRect_ |-> None]

\* bitmap.tryAllocPixels(info): a zero-filled buffer.
BlankBitmap == [p \in Pixels |-> SK_ColorTRANSPARENT]

\* bitmap.erase(SK_ColorTRANSPARENT, rect)
Erase(bitmap, rect) ==
    [p \in Pixels |-> IF p \in rect THEN SK_ColorTRANSPARENT ELSE bitmap[p]]

\* ------------------------------------------------------ State::DecodeImage
\* frameInfo.required_frame.value_or(SkCodec::kNoFrame)
RequiredFrameIndex(frameInfo) ==
    IF HasValue(frameInfo.required_frame) THEN ValueOf(frameInfo.required_frame)
    ELSE kNoFrame

\* Variant: the rectangle is erased in the fresh bitmap before the copy of
\* lastRequiredFrame_, which then overwrites it.
StartingBitmapEraseFirst(s, frameInfo) ==
    IF RequiredFrameIndex(frameInfo) # kNoFrame /\ HasValue(s.lastRequiredFrame_)
    THEN ValueOf(s.lastRequiredFrame_)
    ELSE BlankBitmap

\* The buffer handed to GetPixels: the fresh bitmap, or the copy of
\* lastRequiredFrame_ with restoreBGColorRect_ erased.
StartingBitmap(s, frameInfo) ==
    IF RequiredFrameIndex(frameInfo) # kNoFrame
    THEN IF ~HasValue(s.lastRequiredFrame_)
         THEN BlankBitmap
         ELSE IF HasValue(s.restoreBGColorRect_)
              THEN Erase(ValueOf(s.lastRequiredFrame_), ValueOf(s.restoreBGColorRect_))
              ELSE ValueOf(s.lastRequiredFrame_)
    ELSE BlankBitmap

\* Variant: every frame but a kRestorePrevious one is stored, a frame being
\* stored before or not.
StoreRequiredFrameUnlessRestored(s, frameInfo, bitmap) ==
    IF frameInfo.disposal_method # "kRestorePrevious"
    THEN Some(bitmap)
    ELSE s.lastRequiredFrame_

\* Variant: the frame is stored only over a stored frame, kKeep or not.
StoreRequiredFrameIfAvailable(s, frameInfo, bitmap) ==
    IF HasValue(s.lastRequiredFrame_) /\ frameInfo.disposal_method # "kRestorePrevious"
    THEN Some(bitmap)
    ELSE s.lastRequiredFrame_

\* Variant: kRestorePrevious is not told apart, the frame replaces a stored one.
StoreRequiredFrameOverPrevious(s, frameInfo, bitmap) ==
    IF frameInfo.disposal_method = "kKeep" \/ HasValue(s.lastRequiredFrame_)
    THEN Some(bitmap)
    ELSE s.lastRequiredFrame_

\* lastRequiredFrame_ after a successful GetPixels.
StoreRequiredFrame(s, frameInfo, bitmap) ==
    LET keep_current_frame == frameInfo.disposal_method = "kKeep"
        restore_previous_frame == frameInfo.disposal_method = "kRestorePrevious"
        previous_frame_available == HasValue(s.lastRequiredFrame_)
    IN  IF keep_current_frame \/ (previous_frame_available /\ ~restore_previous_frame)
        THEN Some(bitmap)
        ELSE s.lastRequiredFrame_

\* Variant: the rectangle of the frame is stored whatever its disposal method.
StoreRestoreRectOfAnyFrame(frameInfo) ==
    Some(frameInfo.disposal_rect)

\* restoreBGColorRect_ after a successful GetPixels.
StoreRestoreRect(frameInfo) ==
    IF frameInfo.disposal_method = "kRestoreBGColor"
    THEN Some(frameInfo.disposal_rect)
    ELSE None

\* --------------------------------------------------------------- the tasks
\* The task getNextFrame posts to the IO task runner.
RequestTask(c, r) == [kind |-> "request", codec |-> c, req |-> r,
                      bitmap |-> None, decode_error |-> ""]
\* The task callback_on_io_thread posts: it owns the decode callback, which
\* owns self, a strong reference to the State.
DecodedTask(c, r, bitmap, err) == [kind |-> "decoded", codec |-> c, req |-> r,
                                   bitmap |-> bitmap, decode_error |-> err]
\* The tasks posted to the UI task runner.
InvokeTask(r, image, duration, err) ==
    [kind |-> "invoke", req |-> r, image |-> image, duration |-> duration,
     decode_error |-> err]
ClearTask(r) ==
    [kind |-> "clear", req |-> r, image |-> None, duration |-> 0,
     decode_error |-> ""]

\* weak_state.lock() succeeds while a shared_ptr to the State exists: the
\* codec's state_ member, or the self captured by a queued decode callback.
\* (Evaluated when the IO thread starts a task: no DecodeImage is running.)
StateAlive(c, queue) ==
    \/ handle[c]
    \/ \E i \in 1..Len(queue) : queue[i].kind = "decoded" /\ queue[i].codec = c

\* The requests of codec c made so far, and those not yet delivered.
RequestsOf(c) == {r \in 1..Len(reqs) : reqs[r].codec = c}
Outstanding(c) == {r \in RequestsOf(c) : reqs[r].delivered = 0}

NewRequest(c) ==
    [codec |-> c,
     k |-> Cardinality(RequestsOf(c)),
     sequential |-> Outstanding(c) = {},
     stage |-> "posted",
     picked |-> "",
     releasedAtPickup |-> FALSE,
     index |-> kNoFrame,
     delivered |-> 0]

\* The log of a codec one of whose DecodeImage calls failed.
NoLog == [clean |-> FALSE, calls |-> <<>>]

\* What is recorded of a DecodeImage call: the request, the frame and its
\* info, the buffer GetPixels was given, the buffer it left, the State before
\* and after, and the error reported.
DecodeRecord(r, index, frameInfo, start, output, before, after, err) ==
    [req |-> r, index |-> index, frameInfo |-> frameInfo, start |-> start,
     output |-> output, before |-> before, after |-> after, decode_error |-> err]

\* ------------------------------------------------------------------- Init
\* The generator of a codec that is not in use: no frame.
NoFrames == WithPlayCount({g \in Generators : g.frameCount = 0}, {kInfinitePlayCount})

\* The codecs in use are constructed; the others have been released with no
\* request made.
InitCodecs(inUse, generators, playCounts) ==
    /\ gen \in [Codecs -> WithPlayCount(generators, playCounts) \cup NoFrames]
    /\ \A c \in Codecs \ inUse : gen[c] \in NoFrames
    /\ \A c \in inUse : gen[c] \in WithPlayCount(generators, playCounts)
    /\ handle = [c \in Codecs |-> c \in inUse]
    /\ stConst = [c \in Codecs |-> NewConstMembers(gen[c])]
    /\ st = [c \in Codecs |-> NewState]
    /\ owners = [c \in Codecs |-> IF c \in inUse THEN 1 ELSE 0]
    /\ ioQueue = <<>>
    /\ uiQueue = <<>>
    /\ ioCur = None
    /\ reqs = <<>>
    /\ lastDecode = [c \in Codecs |-> None]
    /\ decodeLog = [c \in Codecs |-> [clean |-> TRUE, calls |-> <<>>]]
    /\ lastOk = [c \in Codecs |-> None]
    /\ uiTouched = [c \in Codecs |-> {}]

\* One codec in use.
InitWith(generators, playCounts) == InitCodecs({1}, generators, playCounts)
\* Every codec in use, the animations are all kKeep.
InitAll == InitCodecs(Codecs, KeepGenerators, {kInfinitePlayCount})

\* Any animation, decoded by requests made one after the other.
InitSeq == InitWith(Generators, {kInfinitePlayCount})
\* Requests made at any time; the animations have one disposal method.
Init == InitWith(UniformGenerators, {kInfinitePlayCount})
\* Requests made at any time, under fair scheduling: no step of the pipeline
\* is chosen by the disposal methods, the animations are all kKeep.
InitFair == InitWith(KeepGenerators, {kInfinitePlayCount})
\* Requests made at any time, of animations of each play count.
InitPlay == InitWith(KeepGenerators, PlayCounts)

\* ----------------------------------------------------------- UI-thread calls
\* Variant: the callback is posted without the error message.
PostNoFramesWithoutError(r) == Append(uiQueue, InvokeTask(r, None, 0, ""))

\* getNextFrame, frameCount_ == 0: the error is posted to the UI task runner.
PostNoFrames(r) == Append(uiQueue, InvokeTask(r, None, 0, NoFrameError))

\* The State members a UI-thread call or task of codec c accessed.
Touched(c, members) == [uiTouched EXCEPT ![c] = @ \cup members]

\* The State members getNextFrame accesses: state_->frameCount_ (the task it
\* posts only captures a weak_ptr to the State).
getNextFrameMembers == {"frameCount_"}

\* MultiFrameCodec::getNextFrame
getNextFrame(c) ==
    /\ handle[c]
    /\ Len(reqs) < MaxRequests
    /\ LET r == Len(reqs) + 1 IN
       /\ reqs' = Append(reqs, NewRequest(c))
       /\ IF stConst[c].frameCount_ = 0
          THEN /\ uiQueue' = PostNoFrames(r)
               /\ ioQueue' = ioQueue
          ELSE /\ ioQueue' = Append(ioQueue, RequestTask(c, r))
               /\ uiQueue' = uiQueue
    /\ uiTouched' = Touched(c, getNextFrameMembers)
    /\ UNCHANGED <<gen, handle, stConst, st, owners, ioCur, lastDecode, decodeLog, lastOk>>

\* MultiFrameCodec::frameCount
frameCount(c) ==
    /\ handle[c]
    /\ uiTouched' = Touched(c, {"frameCount_"})
    /\ UNCHANGED <<gen, handle, stConst, st, owners, ioQueue, uiQueue, ioCur, reqs,
                   lastDecode, decodeLog, lastOk>>

\* MultiFrameCodec::repetitionCount
repetitionCount(c) ==
    /\ handle[c]
    /\ uiTouched' = Touched(c, {"repetitionCount_"})
    /\ UNCHANGED <<gen, handle, stConst, st, owners, ioQueue, uiQueue, ioCur, reqs,
                   lastDecode, decodeLog, lastOk>>

\* MultiFrameCodec::~MultiFrameCodec: the codec's reference to the State goes.
ReleaseCodec(c) ==
    /\ handle[c]
    /\ handle' = [handle EXCEPT ![c] = FALSE]
    /\ owners' = [owners EXCEPT ![c] = @ - 1]
    /\ UNCHANGED <<gen, stConst, st, ioQueue, uiQueue, ioCur, reqs, lastDecode, decodeLog,
                   lastOk, uiTouched>>

\* ----------------------------------------------------------- IO-thread tasks
\* The IO thread is free to take the next task of its queue.
IOIdle == ioCur = None /\ ioQueue # <<>>

\* The request task found the State gone: only callback->Clear() is posted.
ClearOnUIThread(c, r) ==
    /\ uiQueue' = Append(uiQueue, ClearTask(r))
    /\ ioQueue' = Tail(ioQueue)
    /\ reqs' = [reqs EXCEPT ![r].stage = "cleared",
                            ![r].picked = "cleared",
                            ![r].releasedAtPickup = ~handle[c]]
    /\ UNCHANGED <<gen, handle, stConst, st, owners, ioCur, lastDecode, decodeLog, lastOk,
                   uiTouched>>

\* Variant: the decode callback captures this, not a shared_ptr.
CallbackOwnersOfThis(c) == 0

\* GetNextFrameAndInvokeCallback: self = shared_from_this(), the decode
\* callback is one more owner of the State until it is destroyed.
CallbackOwners(c) == 1

\* DecodeImage, tryAllocPixels failed: the error goes to callback_on_io_thread.
\* The task's state (weak_state.lock()) is released at its end, the callback
\* lives on in the task posted.
AllocFailed(c, r) ==
    /\ ioQueue' = Append(Tail(ioQueue), DecodedTask(c, r, None, AllocError))
    /\ reqs' = [reqs EXCEPT ![r].stage = "decoded",
                            ![r].picked = "decode",
                            ![r].releasedAtPickup = ~handle[c]]
    /\ lastDecode' = [lastDecode EXCEPT ![c] =
            Some(DecodeRecord(r, kNoFrame, None, None, None, st[c], st[c], AllocError))]
    /\ decodeLog' = [decodeLog EXCEPT ![c] = NoLog]
    /\ owners' = [owners EXCEPT ![c] = @ + CallbackOwners(c)]
    /\ UNCHANGED <<gen, handle, stConst, st, uiQueue, ioCur, lastOk, uiTouched>>

\* Variant: a frame that requires a frame when none is stored is an error,
\* reported without a call of GetPixels.
InvokeGetPixelsOnRequiredFrame(c, r) ==
    LET index == st[c].nextFrameIndex_
        frameInfo == GetFrameInfo(c, index)
        bitmap == StartingBitmap(st[c], frameInfo)
    IN  IF RequiredFrameIndex(frameInfo) # kNoFrame /\ ~HasValue(st[c].lastRequiredFrame_)
        THEN /\ ioQueue' = Append(Tail(ioQueue), DecodedTask(c, r, None, GetPixelsError))
             /\ reqs' = [reqs EXCEPT ![r].stage = "decoded",
                                     ![r].picked = "decode",
                                     ![r].releasedAtPickup = ~handle[c],
                                     ![r].index = index]
             /\ lastDecode' = [lastDecode EXCEPT ![c] =
                     Some(DecodeRecord(r, index, Some(frameInfo), None, None,
                                       st[c], st[c], GetPixelsError))]
             /\ decodeLog' = [decodeLog EXCEPT ![c] = NoLog]
             /\ owners' = [owners EXCEPT ![c] = @ + CallbackOwners(c)]
             /\ UNCHANGED <<gen, handle, stConst, st, uiQueue, ioCur, lastOk, uiTouched>>
        ELSE /\ ioCur' = Some([codec |-> c, req |-> r, frameInfo |-> frameInfo,
                               bitmap |-> bitmap])
             /\ ioQueue' = Tail(ioQueue)
             /\ reqs' = [reqs EXCEPT ![r].stage = "decoding",
                                     ![r].picked = "decode",
                                     ![r].releasedAtPickup = ~handle[c],
                                     ![r].index = index]
             /\ owners' = [owners EXCEPT ![c] = @ + 1 + CallbackOwners(c)]
             /\ UNCHANGED <<gen, handle, stConst, st, uiQueue, lastDecode, decodeLog, lastOk,
                            uiTouched>>

\* DecodeImage up to the call of generator_->GetPixels: the State is owned by
\* the task's state (weak_state.lock()) and by the decode callback.
InvokeGetPixels(c, r) ==
    LET index == st[c].nextFrameIndex_
        frameInfo == GetFrameInfo(c, index)
        bitmap == StartingBitmap(st[c], frameInfo)
    IN  /\ ioCur' = Some([codec |-> c, req |-> r, frameInfo |-> frameInfo,
                          bitmap |-> bitmap])
        /\ ioQueue' = Tail(ioQueue)
        /\ reqs' = [reqs EXCEPT ![r].stage = "decoding",
                                ![r].picked = "decode",
                                ![r].releasedAtPickup = ~handle[c],
                                ![r].index = index]
        /\ owners' = [owners EXCEPT ![c] = @ + 1 + CallbackOwners(c)]
        /\ UNCHANGED <<gen, handle, stConst, st, uiQueue, lastDecode, decodeLog, lastOk,
                       uiTouched>>

\* The task posted by getNextFrame: weak_state.lock(), then
\* GetNextFrameAndInvokeCallback -> DecodeImage.
IORequestTask ==
    /\ IOIdle
    /\ Head(ioQueue).kind = "request"
    /\ LET c == Head(ioQueue).codec
           r == Head(ioQueue).req
       IN  IF ~StateAlive(c, Tail(ioQueue))
           THEN ClearOnUIThread(c, r)
           ELSE \/ AllocFailed(c, r)
                \/ InvokeGetPixels(c, r)

\* DecodeImage after GetPixels returned true.
DecodeSucceeded(cur) ==
    LET c == cur.codec
        r == cur.req
        bitmap == GetPixels(cur.bitmap, st[c].nextFrameIndex_,
                            RequiredFrameIndex(cur.frameInfo))
        s == [st[c] EXCEPT
                !.lastRequiredFrame_ = StoreRequiredFrame(st[c], cur.frameInfo, bitmap),
                !.restoreBGColorRect_ = StoreRestoreRect(cur.frameInfo)]
    IN  /\ st' = [st EXCEPT ![c] = s]
        /\ ioQueue' = Append(ioQueue, DecodedTask(c, r, Some(bitmap), ""))
        /\ reqs' = [reqs EXCEPT ![r].stage = "decoded"]
        /\ lastDecode' = [lastDecode EXCEPT ![c] =
                Some(DecodeRecord(r, st[c].nextFrameIndex_, Some(cur.frameInfo),
                                  Some(cur.bitmap), Some(bitmap), st[c], s, ""))]
        /\ decodeLog' = [decodeLog EXCEPT ![c] =
                IF @.clean
                THEN [@ EXCEPT !.calls =
                        Append(@, [index |-> st[c].nextFrameIndex_, start |-> cur.bitmap,
                                   output |-> bitmap, retained |-> s.lastRequiredFrame_])]
                ELSE @]
        /\ lastOk' = [lastOk EXCEPT ![c] = Some(cur.frameInfo)]

\* Variant: no return after the error was reported, so DecodeImage goes on
\* and invokes the callback a second time.
DecodeFailedWithoutReturn(cur) ==
    LET c == cur.codec
        r == cur.req
    IN  /\ ioQueue' = Append(Append(ioQueue, DecodedTask(c, r, None, GetPixelsError)),
                             DecodedTask(c, r, Some(cur.bitmap), ""))
        /\ reqs' = [reqs EXCEPT ![r].stage = "decoded"]
        /\ UNCHANGED <<st, lastDecode, decodeLog, lastOk>>

\* Variant: no return after the error was reported, the frame and the
\* rectangle are stored as after a successful GetPixels.
DecodeFailedAfterStore(cur) ==
    LET c == cur.codec
        r == cur.req
        s == [st[c] EXCEPT
                !.lastRequiredFrame_ = StoreRequiredFrame(st[c], cur.frameInfo, cur.bitmap),
                !.restoreBGColorRect_ = StoreRestoreRect(cur.frameInfo)]
    IN  /\ st' = [st EXCEPT ![c] = s]
        /\ ioQueue' = Append(ioQueue, DecodedTask(c, r, None, GetPixelsError))
        /\ reqs' = [reqs EXCEPT ![r].stage = "decoded"]
        /\ lastDecode' = [lastDecode EXCEPT ![c] =
                Some(DecodeRecord(r, st[c].nextFrameIndex_, Some(cur.frameInfo),
                                  Some(cur.bitmap), None, st[c], s, GetPixelsError))]
        /\ decodeLog' = [decodeLog EXCEPT ![c] = NoLog]
        /\ UNCHANGED lastOk

\* DecodeImage after GetPixels returned false.
DecodeFailed(cur) ==
    LET c == cur.codec
        r == cur.req
    IN  /\ ioQueue' = Append(ioQueue, DecodedTask(c, r, None, GetPixelsError))
        /\ reqs' = [reqs EXCEPT ![r].stage = "decoded"]
        /\ lastDecode' = [lastDecode EXCEPT ![c] =
                Some(DecodeRecord(r, st[c].nextFrameIndex_, Some(cur.frameInfo),
                                  Some(cur.bitmap), None, st[c], st[c], GetPixelsError))]
        /\ decodeLog' = [decodeLog EXCEPT ![c] = NoLog]
        /\ UNCHANGED <<st, lastOk>>

\* generator_->GetPixels returns, and DecodeImage runs to its end; the task
\* ends and releases its state.
GetPixelsReturns ==
    /\ HasValue(ioCur)
    /\ \/ DecodeSucceeded(ValueOf(ioCur))
       \/ DecodeFailed(ValueOf(ioCur))
    /\ ioCur' = None
    /\ owners' = [owners EXCEPT ![ValueOf(ioCur).codec] = @ - 1]
    /\ UNCHANGED <<gen, handle, stConst, uiQueue, uiTouched>>

\* State::GetNextFrameImage: the image made of the bitmap, or no image, with
\* the uploader's error (Impeller) or with none (DlImageGPU::Make of no image).
GetNextFrameImage(bitmap) ==
    { [dl_image |-> Some(bitmap), decode_error |-> ""],
      [dl_image |-> None, decode_error |-> UploadError],
      [dl_image |-> None, decode_error |-> ""] }

\* The callback DecodeImage was given: what it passes on.
DecodeCallbackResults(t) ==
    IF HasValue(t.bitmap)
    THEN GetNextFrameImage(ValueOf(t.bitmap))
    ELSE { [dl_image |-> None, decode_error |-> t.decode_error] }

\* Variant: the duration of the frame is read with or without an image.
CallbackDurationOfFrame(c, s, dl_image) ==
    GetFrameInfo(c, s.nextFrameIndex_).duration

\* OnGetImageAndInvokeCallback: the duration passed to the callback.
CallbackDuration(c, s, dl_image) ==
    IF HasValue(dl_image)
    THEN GetFrameInfo(c, s.nextFrameIndex_).duration
    ELSE 0

\* Variant: the index is not reduced modulo frameCount_.
AdvanceFrameIndexPastEnd(c, s, dl_image) ==
    s.nextFrameIndex_ + 1

\* Variant: the index advances only when there is an image.
AdvanceFrameIndexOnSuccess(c, s, dl_image) ==
    IF HasValue(dl_image)
    THEN (s.nextFrameIndex_ + 1) % stConst[c].frameCount_
    ELSE s.nextFrameIndex_

\* OnGetImageAndInvokeCallback: nextFrameIndex_ = (nextFrameIndex_ + 1) % frameCount_
AdvanceFrameIndex(c, s, dl_image) ==
    (s.nextFrameIndex_ + 1) % stConst[c].frameCount_

\* State::OnGetImageAndInvokeCallback
OnGetImageAndInvokeCallback(c, r, dl_image, decode_error) ==
    /\ uiQueue' = Append(uiQueue,
                         InvokeTask(r, dl_image,
                                    CallbackDuration(c, st[c], dl_image),
                                    decode_error))
    /\ st' = [st EXCEPT ![c].nextFrameIndex_ = AdvanceFrameIndex(c, st[c], dl_image)]
    /\ reqs' = [reqs EXCEPT ![r].stage = "completed"]

\* The task posted by callback_on_io_thread: the decode callback, destroyed
\* with the task when it has run.
IODecodedTask ==
    /\ IOIdle
    /\ Head(ioQueue).kind = "decoded"
    /\ LET t == Head(ioQueue) IN
       /\ \E res \in DecodeCallbackResults(t) :
              OnGetImageAndInvokeCallback(t.codec, t.req, res.dl_image, res.decode_error)
       /\ owners' = [owners EXCEPT ![t.codec] = @ - CallbackOwners(t.codec)]
    /\ ioQueue' = Tail(ioQueue)
    /\ UNCHANGED <<gen, handle, stConst, ioCur, lastDecode, decodeLog, lastOk, uiTouched>>

\* ----------------------------------------------------------- UI-thread tasks
\* Variant: the duration is looked up when the callback is invoked.
InvokeNextFrameCallbackOfIndex == {"nextFrameIndex_"}

\* The State members InvokeNextFrameCallback and callback->Clear() access:
\* the task owns the image, the duration and the error it passes on.
InvokeNextFrameCallbackMembers == {}

\* The UI task runner runs its next task: InvokeNextFrameCallback, or
\* callback->Clear().
UITask ==
    /\ uiQueue # <<>>
    /\ LET t == Head(uiQueue) IN
       /\ reqs' = [reqs EXCEPT ![t.req].stage = "delivered",
                               ![t.req].delivered = @ + 1]
       /\ uiTouched' = Touched(reqs[t.req].codec, InvokeNextFrameCallbackMembers)
    /\ uiQueue' = Tail(uiQueue)
    /\ UNCHANGED <<gen, handle, stConst, st, owners, ioQueue, ioCur, lastDecode, decodeLog,
                   lastOk>>

\* -------------------------------------------------------------------- Next
Next ==
    \/ \E c \in Codecs : getNextFrame(c)
    \/ \E c \in Codecs : ReleaseCodec(c)
    \/ IORequestTask
    \/ GetPixelsReturns
    \/ IODecodedTask
    \/ UITask

\* getNextFrame is called again only from the callback of the call before.
NextSeq ==
    \/ \E c \in Codecs : Outstanding(c) = {} /\ getNextFrame(c)
    \/ \E c \in Codecs : ReleaseCodec(c)
    \/ IORequestTask
    \/ GetPixelsReturns
    \/ IODecodedTask
    \/ UITask

\* The calls at any time, the getters among them.
NextCalls ==
    \/ Next
    \/ \E c \in Codecs : frameCount(c)
    \/ \E c \in Codecs : repetitionCount(c)

Spec == Init /\ [][Next]_vars
SeqSpec == InitSeq /\ [][NextSeq]_vars
\* Animations of each play count.
PlaySpec == InitPlay /\ [][Next]_vars
\* The getters are steps: the members they access are recorded.
CallsSpec == InitFair /\ [][NextCalls]_vars

\* Both task runners keep running their queues, and GetPixels returns.
Fairness ==
    /\ WF_vars(IORequestTask)
    /\ WF_vars(GetPixelsReturns)
    /\ WF_vars(IODecodedTask)
    /\ WF_vars(UITask)

FairSpec == InitFair /\ [][Next]_vars /\ Fairness

\* The codecs whose generator_->GetPixels or whose GetNextFrameImage may never
\* return.
Hanging == {1}

\* GetPixels called for codec c returns.
GetPixelsReturnsOf(c) ==
    /\ HasValue(ioCur)
    /\ ValueOf(ioCur).codec = c
    /\ GetPixelsReturns

\* The decode callback of codec c runs to its end: GetNextFrameImage returns.
IODecodedTaskOf(c) ==
    /\ ioQueue # <<>>
    /\ Head(ioQueue).codec = c
    /\ IODecodedTask

\* Both task runners keep running their queues; the calls made for the codecs
\* that are not Hanging return.
FairnessButHanging ==
    /\ WF_vars(IORequestTask)
    /\ WF_vars(UITask)
    /\ \A c \in Codecs \ Hanging :
           WF_vars(GetPixelsReturnsOf(c)) /\ WF_vars(IODecodedTaskOf(c))

\* Two codecs in use, the calls made for one of them may never return.
HangingSpec == InitAll /\ [][Next]_vars /\ FairnessButHanging

\* -------------------------------------------------------------- properties
\* Request r and every earlier request of its codec was made after the
\* completion of the request before it was delivered.
MadeInSequence(r) ==
    \A q \in RequestsOf(reqs[r].codec) : q <= r => reqs[q].sequential

\* DecodeImage of request r has read the frame to decode.
ReadFrame(r) == reqs[r].index # kNoFrame

\* C1: with frameCount > 0 and every request made only after the completion of
\* the one before was delivered, the k-th request decodes frame k mod
\* frameCount, whether the earlier requests succeeded or failed.
C1_SequentialCursor ==
    \A r \in 1..Len(reqs) :
        (MadeInSequence(r) /\ ReadFrame(r)) =>
            reqs[r].index = reqs[r].k % gen[reqs[r].codec].frameCount

\* A request made in sequence decoded frame 0 again after the last frame, an
\* earlier request having failed.
C1_Witness ==
    \E r \in 1..Len(reqs) :
        /\ MadeInSequence(r) /\ ReadFrame(r)
        /\ reqs[r].k = gen[reqs[r].codec].frameCount
        /\ reqs[r].index = 0
        /\ ~decodeLog[reqs[r].codec].clean

\* The decode step of request r has started.
DecodeStarted(r) == reqs[r].picked = "decode"
\* The cursor advance of request r has run.
Advanced(r) == reqs[r].stage \in {"completed", "delivered"} /\ reqs[r].picked = "decode"

\* C2: requests in flight at the same time are processed in submission order
\* without interleaving: the decode step of request k+1 never runs before the
\* cursor advance of request k, and the k-th request decodes frame k mod
\* frameCount.
C2_NoInterleaving ==
    \A r \in 1..Len(reqs) :
        /\ DecodeStarted(r) =>
              \A q \in RequestsOf(reqs[r].codec) :
                  (q < r /\ DecodeStarted(q)) => Advanced(q)
        /\ ReadFrame(r) =>
              reqs[r].index = reqs[r].k % gen[reqs[r].codec].frameCount

\* C3: every getNextFrame call leads to exactly one completion run on the UI
\* task runner: never two, and (the task runners being fair and GetPixels
\* returning) eventually one, so that in the end every call made has had its
\* one completion.
C3_ExactlyOneCompletion ==
    /\ [](\A r \in 1..Len(reqs) : reqs[r].delivered <= 1)
    /\ <>[](\A r \in 1..Len(reqs) : reqs[r].delivered = 1)

\* Every request was made and completed once, the last one by callback->Clear()
\* after the codec was released, an earlier one by the frame callback.
C3_Witness ==
    /\ Len(reqs) = MaxRequests
    /\ \A r \in 1..Len(reqs) : reqs[r].delivered = 1
    /\ reqs[Len(reqs)].picked = "cleared"
    /\ reqs[1].picked = "decode"

\* C4: a request whose codec was released before the IO thread picked it up
\* starts no decode, leaves the State alone and is completed by one no-op
\* delivery.
C4_ReleasedBeforePickup ==
    \A r \in 1..Len(reqs) :
        reqs[r].releasedAtPickup =>
            /\ reqs[r].picked = "cleared"
            /\ ~ReadFrame(r)
            /\ reqs[r].delivered <= 1

\* The tasks of the requests of codec c in a queue.
TasksOf(queue, c) ==
    {i \in 1..Len(queue) : reqs[queue[i].req].codec = c}

\* C5: with frameCount = 0 every request completes with (no image, 0, an
\* error), nothing is posted to the IO task runner, nothing is decoded and
\* nextFrameIndex_ stays 0.
C5_NoFrames ==
    \A c \in Codecs :
        gen[c].frameCount = 0 =>
            /\ st[c] = NewState
            /\ TasksOf(ioQueue, c) = {}
            /\ \A r \in RequestsOf(c) : reqs[r].picked = "" /\ ~ReadFrame(r)
            /\ ~HasValue(lastDecode[c]) /\ decodeLog[c].calls = <<>>
            /\ \A cur \in ioCur : cur.codec # c
            /\ \A i \in TasksOf(uiQueue, c) :
                  /\ uiQueue[i].kind = "invoke"
                  /\ ~HasValue(uiQueue[i].image)
                  /\ uiQueue[i].duration = 0
                  /\ uiQueue[i].decode_error # ""

\* A request of a codec without frames was completed, the completion of the
\* next one is on the UI task runner.
C5_Witness ==
    \E c \in Codecs :
        /\ gen[c].frameCount = 0
        /\ \E r \in RequestsOf(c) : reqs[r].k = 0 /\ reqs[r].delivered = 1
        /\ \E i \in TasksOf(uiQueue, c) :
              reqs[uiQueue[i].req].k = 1 /\ uiQueue[i].decode_error = NoFrameError

\* The last DecodeImage call of codec c succeeded, on a frame with disposal
\* method d; nothing has touched the State's frame members since.
Decoded(c, d) ==
    /\ HasValue(lastDecode[c])
    /\ HasValue(ValueOf(lastDecode[c]).output)
    /\ ValueOf(ValueOf(lastDecode[c]).frameInfo).disposal_method = d

\* C6: after a successful decode of a kKeep frame, lastRequiredFrame_ is that
\* frame's output, whatever lastRequiredFrame_ and restoreBGColorRect_ were.
C6_KeepRetainsOutput ==
    \A c \in Codecs :
        Decoded(c, "kKeep") =>
            st[c].lastRequiredFrame_ = ValueOf(lastDecode[c]).output

\* A kKeep frame was decoded over another retained frame with a pending
\* rectangle, and replaced it.
C6_Witness ==
    \E c \in Codecs :
        /\ Decoded(c, "kKeep")
        /\ HasValue(ValueOf(lastDecode[c]).before.lastRequiredFrame_)
        /\ HasValue(ValueOf(lastDecode[c]).before.restoreBGColorRect_)
        /\ ValueOf(lastDecode[c]).before.lastRequiredFrame_ # ValueOf(lastDecode[c]).output
        /\ st[c].lastRequiredFrame_ = ValueOf(lastDecode[c]).output

\* C7: after a successful decode of a kRestorePrevious frame while a frame was
\* retained, lastRequiredFrame_ is the buffer it was before.
C7_RestorePreviousKeepsRetained ==
    \A c \in Codecs :
        (Decoded(c, "kRestorePrevious")
            /\ HasValue(ValueOf(lastDecode[c]).before.lastRequiredFrame_)) =>
            st[c].lastRequiredFrame_ = ValueOf(lastDecode[c]).before.lastRequiredFrame_

\* A kRestorePrevious frame was decoded whose output differs from the retained
\* frame, which stayed.
C7_Witness ==
    \E c \in Codecs :
        /\ Decoded(c, "kRestorePrevious")
        /\ HasValue(ValueOf(lastDecode[c]).before.lastRequiredFrame_)
        /\ ValueOf(lastDecode[c]).output # ValueOf(lastDecode[c]).before.lastRequiredFrame_
        /\ st[c].lastRequiredFrame_ = ValueOf(lastDecode[c]).before.lastRequiredFrame_

\* C8: after a successful decode of a kRestorePrevious frame while no frame
\* was retained, lastRequiredFrame_ is that frame's output (as for kKeep).
C8_RestorePreviousFallsBackToKeep ==
    \A c \in Codecs :
        (Decoded(c, "kRestorePrevious")
            /\ ~HasValue(ValueOf(lastDecode[c]).before.lastRequiredFrame_)) =>
            st[c].lastRequiredFrame_ = ValueOf(lastDecode[c]).output

\* C9: after a successful decode of a kRestoreBGColor frame with rectangle R,
\* the buffer the next DecodeImage hands to GetPixels has every pixel of R
\* transparent (the rectangle is erased after the copy of the retained frame).
C9_RectClearedAtGetPixels ==
    \A cur \in ioCur :
        \A fi \in lastOk[cur.codec] :
            fi.disposal_method = "kRestoreBGColor" =>
                \A p \in fi.disposal_rect : cur.bitmap[p] = SK_ColorTRANSPARENT

\* GetPixels is called for a frame that requires its predecessor, after a
\* kRestoreBGColor frame: the retained frame has a visible pixel in R, and
\* another one outside R that the starting buffer kept.
C9_Witness ==
    \E cur \in ioCur :
        \E fi \in lastOk[cur.codec] :
            /\ fi.disposal_method = "kRestoreBGColor"
            /\ HasValue(cur.frameInfo.required_frame)
            /\ \E b \in st[cur.codec].lastRequiredFrame_ :
                  /\ \E p \in fi.disposal_rect : b[p] # SK_ColorTRANSPARENT
                  /\ \E p \in Pixels : cur.bitmap[p] # SK_ColorTRANSPARENT

\* The animation of the end-to-end scenario: frame 0 kKeep; frame 1
\* kRestorePrevious, requiring frame 0; frame 2 kRestoreBGColor, requiring
\* frame 1.
ThreeFrameAnimation(g) ==
    /\ g.frameCount = 3
    /\ g.frames[0].disposal_method = "kKeep"
    /\ g.frames[1].disposal_method = "kRestorePrevious"
    /\ g.frames[1].required_frame = Some(0)
    /\ g.frames[2].disposal_method = "kRestoreBGColor"
    /\ g.frames[2].required_frame = Some(1)

\* Codec c, fresh, decoded the three frames of that animation in order, every
\* decode succeeding.
ThreeFramesDecoded(c) ==
    /\ ThreeFrameAnimation(gen[c])
    /\ Len(decodeLog[c].calls) >= 3
    /\ \A i \in 1..3 : decodeLog[c].calls[i].index = i - 1

\* C10: in that scenario the retained buffer after frames 0, 1, 2 is frame 0's
\* output, frame 0's output, frame 1's output, and frame 2 starts from frame
\* 1's pixels with R cleared.
C10_EndToEndAsClaimed ==
    \A c \in Codecs :
        ThreeFramesDecoded(c) =>
            /\ decodeLog[c].calls[1].retained = Some(decodeLog[c].calls[1].output)
            /\ decodeLog[c].calls[2].retained = Some(decodeLog[c].calls[1].output)
            /\ decodeLog[c].calls[3].retained = Some(decodeLog[c].calls[2].output)
            /\ decodeLog[c].calls[3].start =
                  Erase(decodeLog[c].calls[2].output, gen[c].frames[2].disposal_rect)

\* C10, amended: the retained buffer after frames 0, 1, 2 is frame 0's output,
\* frame 0's output, frame 2's output, and frame 2 starts from frame 0's
\* output (the retained buffer) with nothing cleared.
C10_EndToEnd ==
    \A c \in Codecs :
        ThreeFramesDecoded(c) =>
            /\ decodeLog[c].calls[1].retained = Some(decodeLog[c].calls[1].output)
            /\ decodeLog[c].calls[2].retained = Some(decodeLog[c].calls[1].output)
            /\ decodeLog[c].calls[3].retained = Some(decodeLog[c].calls[3].output)
            /\ decodeLog[c].calls[3].start = decodeLog[c].calls[1].output

\* The scenario ran, the three outputs differ, and R covers a visible pixel of
\* the buffer frame 2 started from.
C10_Witness ==
    \E c \in Codecs :
        /\ ThreeFramesDecoded(c)
        /\ decodeLog[c].calls[1].output # decodeLog[c].calls[2].output
        /\ decodeLog[c].calls[2].output # decodeLog[c].calls[3].output
        /\ decodeLog[c].calls[1].output # decodeLog[c].calls[3].output
        /\ \E p \in gen[c].frames[2].disposal_rect :
              decodeLog[c].calls[3].start[p] # SK_ColorTRANSPARENT

\* The last DecodeImage call of codec c reported an error.
FailedDecode(c) ==
    HasValue(lastDecode[c]) /\ ~HasValue(ValueOf(lastDecode[c]).output)

\* C11: when a decode attempt fails (the buffer is not allocated, or GetPixels
\* fails), lastRequiredFrame_ and restoreBGColorRect_ are after it what they
\* were before it, and the completion carries the failure message.
C11_FailedDecodeChangesNothing ==
    \A c \in Codecs :
        FailedDecode(c) =>
            LET d == ValueOf(lastDecode[c]) IN
            /\ d.decode_error \in {AllocError, GetPixelsError}
            /\ st[c].lastRequiredFrame_ = d.before.lastRequiredFrame_
            /\ st[c].restoreBGColorRect_ = d.before.restoreBGColorRect_
            /\ \A i \in 1..Len(ioQueue) :
                   ioQueue[i].req = d.req =>
                       /\ ioQueue[i].kind = "decoded"
                       /\ ioQueue[i].bitmap = None
                       /\ ioQueue[i].decode_error = d.decode_error
            /\ \A i \in 1..Len(uiQueue) :
                   uiQueue[i].req = d.req =>
                       /\ uiQueue[i].kind = "invoke"
                       /\ uiQueue[i].image = None
                       /\ uiQueue[i].decode_error = d.decode_error

\* GetPixels failed with a frame retained and a rectangle pending, both are
\* still there and the completion posted carries the message.
C11_Witness ==
    \E c \in Codecs :
        /\ FailedDecode(c)
        /\ ValueOf(lastDecode[c]).decode_error = GetPixelsError
        /\ HasValue(st[c].lastRequiredFrame_)
        /\ HasValue(st[c].restoreBGColorRect_)
        /\ \E i \in 1..Len(uiQueue) :
               /\ uiQueue[i].req = ValueOf(lastDecode[c]).req
               /\ uiQueue[i].decode_error = GetPixelsError

\* The step is the decode callback of a request of codec c run by the IO
\* thread: it leaves the IO queue and posts its completion, the last task of
\* the UI queue after the step.
CompletionStep(c) ==
    /\ ioQueue # <<>>
    /\ Head(ioQueue).kind = "decoded"
    /\ Head(ioQueue).codec = c
    /\ ioQueue' = Tail(ioQueue)
    /\ Len(uiQueue') = Len(uiQueue) + 1

\* C12: when a request of a codec with frameCount > 0 fails (no buffer, no
\* pixels, or no image made of the bitmap), its completion carries no image
\* and the duration 0, and nextFrameIndex_ advances by one modulo frameCount_
\* as it does after a success.
C12_FailureYieldsNoImageAndAdvances ==
    [][\A c \in Codecs :
        LET posted == uiQueue'[Len(uiQueue')] IN
        (/\ CompletionStep(c)
         /\ ~HasValue(Head(ioQueue).bitmap) \/ ~HasValue(posted.image)) =>
            /\ stConst[c].frameCount_ > 0
            /\ posted.kind = "invoke"
            /\ posted.req = Head(ioQueue).req
            /\ posted.image = None
            /\ posted.duration = 0
            /\ st'[c].nextFrameIndex_ =
                   (st[c].nextFrameIndex_ + 1) % stConst[c].frameCount_]_vars

\* A request of an animation of several frames decoded its frame, no image was
\* made of the bitmap: the completion posted has no image and the duration 0,
\* and the index is past the frame.
C12_Witness ==
    \E r \in 1..Len(reqs) :
        LET c == reqs[r].codec IN
        /\ stConst[c].frameCount_ > 1
        /\ reqs[r].stage = "completed"
        /\ ReadFrame(r)
        /\ st[c].nextFrameIndex_ = (reqs[r].index + 1) % stConst[c].frameCount_
        /\ \E i \in 1..Len(uiQueue) :
               /\ uiQueue[i].req = r
               /\ uiQueue[i].image = None
               /\ uiQueue[i].duration = 0
               /\ uiQueue[i].decode_error = UploadError

\* C13: repetitionCount_ is -1 when the generator's play count is
\* kInfinitePlayCount and the play count minus one otherwise, and frameCount_
\* and repetitionCount_ are in every reachable state what the generator
\* reported at construction.
C13_ConstMembers ==
    \A c \in Codecs :
        /\ stConst[c].frameCount_ = gen[c].frameCount
        /\ gen[c].playCount = kInfinitePlayCount => stConst[c].repetitionCount_ = -1
        /\ gen[c].playCount # kInfinitePlayCount =>
               stConst[c].repetitionCount_ = gen[c].playCount - 1

\* An animation that plays forever has repetitionCount_ -1 after requests
\* were served and the codec was released with a decode callback still queued.
C13_Witness ==
    \E c \in Codecs :
        /\ gen[c].playCount = kInfinitePlayCount
        /\ stConst[c].repetitionCount_ = -1
        /\ stConst[c].frameCount_ = 2
        /\ ~handle[c]
        /\ st[c].nextFrameIndex_ = 1
        /\ \E i \in 1..Len(ioQueue) : ioQueue[i].kind = "decoded"

\* C14: the duration delivered with an image is the duration of the frame the
\* same request decoded, whatever other requests are in flight between its
\* decode and its advance of the index.
C14_DurationOfDecodedFrame ==
    \A i \in 1..Len(uiQueue) :
        (uiQueue[i].kind = "invoke" /\ HasValue(uiQueue[i].image)) =>
            LET r == uiQueue[i].req IN
            uiQueue[i].duration = GetFrameInfo(reqs[r].codec, reqs[r].index).duration

\* A step of a request of codec c is pending or running on the IO thread: its
\* DecodeImage call, or its decode callback in the queue.
DecodePending(c) ==
    \/ \E cur \in ioCur : cur.codec = c
    \/ \E i \in 1..Len(ioQueue) : ioQueue[i].kind = "decoded" /\ ioQueue[i].codec = c

\* C15: when the codec is released after the IO thread picked up a request,
\* the State is owned until the completion of the request is posted, so no
\* step of the request runs on a destroyed State, and the request advances
\* nextFrameIndex_ and posts its result as it does with the codec alive.
C15_StateOutlivesRelease ==
    /\ [](\A c \in Codecs : DecodePending(c) => owners[c] > 0)
    /\ [][\A c \in Codecs :
            LET posted == uiQueue'[Len(uiQueue')] IN
            (CompletionStep(c) /\ ~handle[c]) =>
                /\ posted.kind = "invoke"
                /\ posted.req = Head(ioQueue).req
                /\ HasValue(posted.image) => posted.image = Head(ioQueue).bitmap
                /\ ~HasValue(Head(ioQueue).bitmap) =>
                       posted.decode_error = Head(ioQueue).decode_error
                /\ st'[c].nextFrameIndex_ =
                       (st[c].nextFrameIndex_ + 1) % stConst[c].frameCount_]_vars

\* The codec was released after the IO thread picked up the request: its
\* decode callback, still queued, is the one owner of the State.
C15_Witness ==
    \E r \in 1..Len(reqs) :
        LET c == reqs[r].codec IN
        /\ reqs[r].picked = "decode"
        /\ ~reqs[r].releasedAtPickup
        /\ reqs[r].stage = "decoded"
        /\ ~handle[c]
        /\ owners[c] = 1
        /\ \E i \in 1..Len(ioQueue) : ioQueue[i].kind = "decoded" /\ ioQueue[i].req = r

\* C16 as claimed: restoreBGColorRect_ is set only if lastRequiredFrame_ is.
C16_RectOnlyWithRetainedFrame ==
    \A c \in Codecs :
        HasValue(st[c].restoreBGColorRect_) => HasValue(st[c].lastRequiredFrame_)

\* C16: restoreBGColorRect_ is set exactly when the last successfully decoded
\* frame is kRestoreBGColor, and is then its disposal rectangle, a frame being
\* retained or not; with no frame retained it is not applied, GetPixels is
\* given the blank buffer.
C16_RectFollowsLastDecode ==
    \A c \in Codecs :
        /\ HasValue(st[c].restoreBGColorRect_) <=>
               (HasValue(lastOk[c]) /\ ValueOf(lastOk[c]).disposal_method = "kRestoreBGColor")
        /\ HasValue(st[c].restoreBGColorRect_) =>
               ValueOf(st[c].restoreBGColorRect_) = ValueOf(lastOk[c]).disposal_rect
        /\ \A cur \in ioCur :
               (cur.codec = c /\ ~HasValue(st[c].lastRequiredFrame_)) =>
                   cur.bitmap = BlankBitmap

\* A rectangle is pending with no frame retained, and the decode of a frame
\* that requires its predecessor starts from the blank buffer.
C16_Witness ==
    \E c \in Codecs :
        /\ HasValue(st[c].restoreBGColorRect_)
        /\ ~HasValue(st[c].lastRequiredFrame_)
        /\ \E cur \in ioCur :
               /\ cur.codec = c
               /\ HasValue(cur.frameInfo.required_frame)
               /\ cur.bitmap = BlankBitmap

C18_NoRetainedFrameIsNoError ==
    \A c \in Codecs :
        /\ \A r \in RequestsOf(c) :
               (/\ ReadFrame(r)
                /\ reqs[r].stage = "decoding"
                /\ HasValue(GetFrameInfo(c, reqs[r].index).required_frame)
                /\ ~HasValue(st[c].lastRequiredFrame_)) =>
                   \E cur \in ioCur :
                       /\ cur.req = r
                       /\ cur.frameInfo = GetFrameInfo(c, reqs[r].index)
                       /\ cur.bitmap = BlankBitmap
        /\ HasValue(lastDecode[c]) =>
               LET d == ValueOf(lastDecode[c]) IN
               (/\ HasValue(d.frameInfo)
                /\ HasValue(ValueOf(d.frameInfo).required_frame)
                /\ ~HasValue(d.before.lastRequiredFrame_)) =>
                   /\ d.start = Some(BlankBitmap)
                   /\ ~HasValue(d.output) => d.decode_error = GetPixelsError
                   /\ HasValue(d.output) =>
                          /\ d.decode_error = ""
                          /\ ValueOf(d.output) =
                                 GetPixels(BlankBitmap, d.index,
                                           RequiredFrameIndex(ValueOf(d.frameInfo)))

\* A frame that requires its predecessor was decoded with no frame retained:
\* GetPixels drew it on the blank buffer and the bitmap goes to the callback.
C18_Witness ==
    \E c \in Codecs :
        /\ HasValue(lastDecode[c])
        /\ HasValue(ValueOf(lastDecode[c]).frameInfo)
        /\ HasValue(ValueOf(ValueOf(lastDecode[c]).frameInfo).required_frame)
        /\ ~HasValue(ValueOf(lastDecode[c]).before.lastRequiredFrame_)
        /\ ValueOf(lastDecode[c]).start = Some(BlankBitmap)
        /\ HasValue(ValueOf(lastDecode[c]).output)
        /\ \E i \in 1..Len(ioQueue) :
               /\ ioQueue[i].kind = "decoded"
               /\ ioQueue[i].req = ValueOf(lastDecode[c]).req
               /\ ioQueue[i].bitmap = ValueOf(lastDecode[c]).output

\* The step is taken by the UI thread: a call of getNextFrame or of a getter,
\* the release of the codec, or a task of the UI queue.
UIThreadStep ==
    \/ Len(reqs') > Len(reqs)
    \/ handle' # handle
    \/ uiTouched' # uiTouched
    \/ uiQueue # <<>> /\ uiQueue' = Tail(uiQueue)

\* C19: nextFrameIndex_, lastRequiredFrame_ and restoreBGColorRect_ are read
\* and written by tasks of the IO thread only; what runs on the UI thread
\* accesses only the const members frameCount_ and repetitionCount_.
C19_MembersOfTheIOThread ==
    /\ [](\A c \in Codecs : uiTouched[c] \subseteq {"frameCount_", "repetitionCount_"})
    /\ [][UIThreadStep => st' = st]_vars

\* The UI thread called getNextFrame and both getters and ran a completion,
\* the IO thread stored a frame and advanced the index.
C19_Witness ==
    \E c \in Codecs :
        /\ uiTouched[c] = {"frameCount_", "repetitionCount_"}
        /\ \E r \in RequestsOf(c) : reqs[r].delivered = 1
        /\ HasValue(st[c].lastRequiredFrame_)
        /\ st[c].nextFrameIndex_ = 1

\* C20: with frameCount_ > 0, nextFrameIndex_ is always in 0..frameCount_ - 1,
\* and each decode attempt that runs its callback changes it by exactly one
\* modulo frameCount_; no other step changes it.
C20_IndexInRange ==
    /\ [](\A c \in Codecs :
            stConst[c].frameCount_ > 0 =>
                st[c].nextFrameIndex_ \in 0..(stConst[c].frameCount_ - 1))
    /\ [][\A c \in Codecs :
            stConst[c].frameCount_ > 0 =>
                IF CompletionStep(c)
                THEN st'[c].nextFrameIndex_ =
                         (st[c].nextFrameIndex_ + 1) % stConst[c].frameCount_
                ELSE st'[c].nextFrameIndex_ = st[c].nextFrameIndex_]_vars

\* The request that decoded the last frame of an animation of several frames
\* has run its callback: the index is 0 again.
C20_Witness ==
    \E r \in 1..Len(reqs) :
        LET c == reqs[r].codec IN
        /\ stConst[c].frameCount_ > 1
        /\ reqs[r].index = stConst[c].frameCount_ - 1
        /\ reqs[r].stage = "completed"
        /\ st[c].nextFrameIndex_ = 0

\* C21: if a GetPixels call or a GetNextFrameImage call made for one codec
\* never returns, only that request stalls: every request made on another
\* codec is eventually picked up by the IO thread and completed.
C21_OtherCodecsProceed ==
    \A r \in 1..MaxRequests :
        (Len(reqs) >= r /\ reqs[r].codec \notin Hanging)
            ~> (Len(reqs) >= r /\ reqs[r].delivered = 1)

====
